---- MODULE Spec2Model ----
(***************************************************************************)
(* Model of upload_dicom_files.py: the command-line importer that walks    *)
(* its positional arguments, unwraps archives by file-name suffix and      *)
(* posts every payload to the REST API of the store.                       *)
(*                                                                         *)
(* File names are sequences of tokens.  "." and "/" are the dot and the    *)
(* path separator; every other token stands for one or more characters     *)
(* that are neither.  File contents are payload records.  The remote       *)
(* store answers every request nondeterministically.  Console output is    *)
(* kept only where it carries state: the "New imported study" block and    *)
(* the summary headline (--verbose only adds progress lines and is left    *)
(* out).                                                                   *)
(***************************************************************************)
EXTENDS Integers, Sequences, FiniteSets, TLC

VARIABLES
  args,              \* parsed command line: clear, force, ignore_errors, files
  pc,                \* position of the script
  fatal,             \* the uncaught exception that ended the run, or "none"
  remote,            \* studies held by the remote store (sequence of ids)
  pending,           \* studies of r.json() not yet deleted by the clear loop
  deletes,           \* DELETE requests issued
  prompts,           \* confirmation prompts shown to the user
  argIdx,            \* index in args.files of the path being processed
  queue,             \* files still to hand to decode_file for this path
  items,             \* members of the open archive not yet iterated
  cur,               \* file being decoded ("none" outside decode_file)
  fileCalls,         \* members of cur handed to upload_buffer (0: the whole file)
  lastDone,          \* the last file decode_file returned from, with its calls
  path,              \* name given to the last decode_file call
  strategy,          \* function (and tar decoder) that call selected
  IMPORTED_STUDIES,
  COUNT_ERROR,
  COUNT_DICOM,
  COUNT_JSON,
  posts,             \* POST /instances requests issued
  gets,              \* per study: GET /instances/{id}/tags requests issued
  blocks,            \* per study: "New imported study" blocks printed
  named,             \* per study: successful uploads whose answer names it
  sinkCalls,         \* calls of upload_buffer
  lastSink,          \* argument of the last upload_buffer call
  lastPost,          \* outcome of the POST of the last upload_buffer call
  uploadedArgs,      \* indexes of the arguments upload_buffer was called for
  summary            \* headline of the final report, or "none"

vars == <<args, pc, fatal, remote, pending, deletes, prompts, argIdx, queue,
          items, cur, fileCalls, lastDone, path, strategy, IMPORTED_STUDIES,
          COUNT_ERROR, COUNT_DICOM, COUNT_JSON, posts, gets, blocks, named,
          sinkCalls, lastSink, lastPost, uploadedArgs, summary>>

ctlVars  == <<args, remote, pending, deletes, prompts>>
sinkVars == <<IMPORTED_STUDIES, COUNT_ERROR, COUNT_DICOM, COUNT_JSON, posts,
              gets, blocks, named, sinkCalls, lastSink, lastPost,
              uploadedArgs>>

-----------------------------------------------------------------------------
(* Bounds *)

MaxArgs == 2        \* positional arguments on the command line
MaxStore == 1       \* studies in the remote store when the run starts
MaxPathLen == 5     \* tokens in a file name given to decode_file alone

-----------------------------------------------------------------------------
(* Payloads *)

REQUIRED_TAGS_DEFAULT_VALUES ==
  [PatientID |-> "0", SOPInstanceUID |-> "0",
   SeriesInstanceUID |-> "0", StudyInstanceUID |-> "0"]

Keywords == DOMAIN REQUIRED_TAGS_DEFAULT_VALUES

NoTags == [k \in Keywords |-> "absent"]

\* kind: "dicom" a well-formed image object, "json" structured text,
\* "bin" any other non-empty bytes, "empty" no bytes.  ds: the value of the
\* four identity fields ("absent" when the data set lacks the field).
\* resaved: the bytes were written by ds.save_as.
Payload(kind, ds) == [kind |-> kind, ds |-> ds, resaved |-> FALSE]

DcmFull    == Payload("dicom", [k \in Keywords |-> "orig"])
DcmPartial == Payload("dicom", [k \in Keywords |->
                                  IF k = "PatientID" THEN "absent" ELSE "orig"])
Json       == Payload("json", NoTags)
Bin        == Payload("bin", NoTags)
Empty      == Payload("empty", NoTags)
NoPayload  == Payload("none", NoTags)

is_json(content) == content.kind = "json"

\* dcmread raises unless the bytes are a well-formed image object
dcmread_ok(content) == content.kind = "dicom"

validate_dicom_tags(content) ==
  [kind |-> "dicom",
   ds |-> [k \in Keywords |->
             IF content.ds[k] = "absent"
             THEN REQUIRED_TAGS_DEFAULT_VALUES[k] ELSE content.ds[k]],
   resaved |-> TRUE]

-----------------------------------------------------------------------------
(* File names and the dispatch of decode_file *)

Tokens == {"a", ".", "/", "tar", "gz", "bz2", "zip"}

Names == UNION {[1..n -> Tokens] : n \in 0..MaxPathLen}

\* str.rfind, 1-based: 0 when the token does not occur
rfind(p, t) ==
  IF \E i \in 1..Len(p) : p[i] = t
  THEN CHOOSE i \in 1..Len(p) : p[i] = t /\ \A j \in (i+1)..Len(p) : p[j] # t
  ELSE 0

endswith(p, suffix) ==
  /\ Len(p) >= Len(suffix)
  /\ SubSeq(p, Len(p) - Len(suffix) + 1, Len(p)) = suffix

\* os.path.splitext: the extension starts at the last dot of the last path
\* component, unless only dots precede it in that component
splitext(p) ==
  LET sepIndex == rfind(p, "/")
      dotIndex == rfind(p, ".")
  IN IF /\ dotIndex > sepIndex
        /\ \E i \in (sepIndex + 1)..(dotIndex - 1) : p[i] # "."
     THEN <<SubSeq(p, 1, dotIndex - 1), SubSeq(p, dotIndex, Len(p))>>
     ELSE <<p, <<>> >>

Call(fn, decoder) == [fn |-> fn, decoder |-> decoder]
NoCall == Call("none", "")

\* the function decode_file calls for file_path, and the decoder it passes
decode_file(file_path) ==
  LET extension == splitext(file_path)[2]
  IN IF endswith(file_path, <<".", "tar", ".", "bz2">>)
       THEN Call("upload_tar", "r:bz2")
     ELSE IF endswith(file_path, <<".", "tar", ".", "gz">>)
       THEN Call("upload_tar", "r:gz")
     ELSE IF extension = <<".", "zip">> THEN Call("upload_zip", "")
     ELSE IF extension = <<".", "tar">> THEN Call("upload_tar", "r")
     ELSE IF extension = <<".", "bz2">> THEN Call("upload_bzip2", "")
     ELSE IF extension = <<".", "gz">> THEN Call("upload_gzip", "")
     ELSE Call("upload_file", "")

-----------------------------------------------------------------------------
(* The file system the positional arguments name *)

Member(type, file_size, data) ==
  [type |-> type, file_size |-> file_size, data |-> data]

\* type: "file", "dir" or "missing" (os.path.isfile / os.path.isdir).
\* format: what the bytes on disk really are.  raw: those bytes read as one
\* payload.  stream: what a gzip/bzip2 stream decompresses to.  members: the
\* entries of a tar or zip archive.  files, dirs: the content of a directory.
Node(name, type, format, raw, stream, members, files, dirs) ==
  [name |-> name, type |-> type, format |-> format, raw |-> raw,
   stream |-> stream, members |-> members, files |-> files, dirs |-> dirs]

File(name, format, raw, stream, members) ==
  Node(name, "file", format, raw, stream, members, <<>>, <<>>)

FS ==
     "img"     :> File(<<"a">>, "plain", DcmPartial, NoPayload, <<>>)
  @@ "notes"   :> File(<<"a", ".", "a">>, "plain", Json, NoPayload, <<>>)
  @@ "gz"      :> File(<<"a", ".", "gz">>, "gzip", Bin, DcmPartial, <<>>)
  @@ "plaingz" :> File(<<"a", "a", ".", "gz">>, "plain", DcmFull, NoPayload, <<>>)
  @@ "bz2"     :> File(<<"a", ".", "bz2">>, "bzip2", Bin, DcmFull, <<>>)
  @@ "tar"     :> File(<<"a", ".", "tar">>, "tar", Bin, NoPayload,
                       << Member("dir", 0, Empty), Member("reg", 1, DcmPartial),
                          Member("sym", 0, Empty), Member("reg", 1, Json) >>)
  @@ "targz"   :> File(<<"a", ".", "tar", ".", "gz">>, "tar.gz", Bin, NoPayload,
                       << Member("reg", 1, DcmFull), Member("dir", 0, Empty) >>)
  @@ "tarbz2"  :> File(<<"a", ".", "tar", ".", "bz2">>, "tar.bz2", Bin, NoPayload,
                       << Member("reg", 0, Empty) >>)
  @@ "zip"     :> File(<<"a", ".", "zip">>, "zip", Bin, NoPayload,
                       << Member("dir", 0, Empty), Member("reg", 1, DcmFull),
                          Member("reg", 0, Empty), Member("sym", 1, Bin) >>)
  @@ "badzip"  :> File(<<"a", "a", ".", "zip">>, "plain", DcmFull, NoPayload, <<>>)
  @@ "badtar"  :> File(<<"a", "a", ".", "tar", ".", "gz">>, "tar", Bin, NoPayload,
                       << Member("reg", 1, DcmFull) >>)
  @@ "dir"     :> Node(<<"a", "a">>, "dir", "", NoPayload, NoPayload, <<>>,
                       <<"img">>, <<"sub">>)
  @@ "sub"     :> Node(<<"a", "a", "/", "a">>, "dir", "", NoPayload, NoPayload,
                       <<>>, <<"notes">>, <<>>)
  @@ "nowhere" :> Node(<<"a", "a", "a">>, "missing", "", NoPayload, NoPayload,
                       <<>>, <<>>, <<>>)

\* what a command line can name
Paths == {"img", "gz", "plaingz", "bz2", "tar", "targz", "tarbz2",
          "zip", "badzip", "badtar", "dir", "nowhere"}

isfile(p) == FS[p].type = "file"
isdir(p)  == FS[p].type = "dir"

\* os.path.join(root, name)
join(root, name) == root \o <<"/">> \o name

\* one decode_file call to make: the file and the path string naming it
Entry(file, p) == [file |-> file, path |-> p]

RECURSIVE Flatten(_)
Flatten(ss) == IF ss = <<>> THEN <<>> ELSE Head(ss) \o Flatten(Tail(ss))

\* the files os.walk yields under a directory, top-down, each joined to its root
RECURSIVE os_walk(_)
os_walk(p) ==
  [i \in 1..Len(FS[p].files) |->
     Entry(FS[p].files[i], join(FS[p].name, FS[FS[p].files[i]].name))]
  \o Flatten([i \in 1..Len(FS[p].dirs) |-> os_walk(FS[p].dirs[i])])

\* tarfile.open(file_path, decoder): "r" reads any compression
tarfile_open_ok(f, decoder) ==
  \/ decoder = "r"    /\ FS[f].format \in {"tar", "tar.gz", "tar.bz2"}
  \/ decoder = "r:gz"  /\ FS[f].format = "tar.gz"
  \/ decoder = "r:bz2" /\ FS[f].format = "tar.bz2"

zipfile_open_ok(f) == FS[f].format = "zip"

isreg(item) == item.type = "reg"

-----------------------------------------------------------------------------
(* The remote store *)

Studies == {"s1", "s2"}

Response(status, isdict, ParentStudy) ==
  [status |-> status, isdict |-> isdict, ParentStudy |-> ParentStudy]

\* answers to POST /instances: refused, stored (the body a dictionary naming
\* the parent study), or stored with a body that is no dictionary
PostResponses ==
  {Response("fail", FALSE, "none"), Response("ok", FALSE, "none")}
  \cup {Response("ok", TRUE, s) : s \in Studies}

\* answers to GET, DELETE: the status raise_for_status looks at
Statuses == {"ok", "fail"}

-----------------------------------------------------------------------------
(* upload_buffer *)

Return(ret) == pc' = ret /\ fatal' = fatal
Raise(exc)  == pc' = "aborted" /\ fatal' = exc

\* JsonSkipped with the file counted as an error
JsonSkipped_asError(ret) ==
  /\ COUNT_JSON' = COUNT_JSON + 1
  /\ COUNT_ERROR' = COUNT_ERROR + 1
  /\ lastPost' = "none"
  /\ UNCHANGED <<COUNT_DICOM, IMPORTED_STUDIES, posts, gets, blocks, named>>
  /\ Return(ret)

\* if is_json(dicom): COUNT_JSON += 1; return
JsonSkipped(ret) ==
  /\ COUNT_JSON' = COUNT_JSON + 1
  /\ lastPost' = "none"
  /\ UNCHANGED <<COUNT_ERROR, COUNT_DICOM, IMPORTED_STUDIES, posts, gets,
                 blocks, named>>
  /\ Return(ret)

\* Rejected with the exception re-raised outside ignore-errors mode
Rejected_fatal(ret) ==
  /\ COUNT_ERROR' = COUNT_ERROR + 1
  /\ lastPost' = "fail"
  /\ UNCHANGED <<COUNT_DICOM, COUNT_JSON, IMPORTED_STUDIES, gets, blocks, named>>
  /\ IF args.ignore_errors THEN Return(ret) ELSE Raise("HTTPError")

\* except: COUNT_ERROR += 1, then a message and return in either mode
Rejected(ret) ==
  /\ COUNT_ERROR' = COUNT_ERROR + 1
  /\ lastPost' = "fail"
  /\ UNCHANGED <<COUNT_DICOM, COUNT_JSON, IMPORTED_STUDIES, gets, blocks, named>>
  /\ IF args.ignore_errors THEN Return(ret) ELSE Return(ret)

\* IsNewStudy without the look-up in IMPORTED_STUDIES
IsNewStudy_always(info) == info.isdict

\* isinstance(info, dict) and not info['ParentStudy'] in IMPORTED_STUDIES
IsNewStudy(info) ==
  info.isdict /\ info.ParentStudy \notin IMPORTED_STUDIES

Accepted(info, response_2, ret) ==
  /\ COUNT_DICOM' = COUNT_DICOM + 1
  /\ lastPost' = "ok"
  /\ named' = IF info.isdict
              THEN [named EXCEPT ![info.ParentStudy] = @ + 1] ELSE named
  /\ UNCHANGED <<COUNT_ERROR, COUNT_JSON>>
  /\ IF IsNewStudy(info)
     THEN /\ IMPORTED_STUDIES' = IMPORTED_STUDIES \cup {info.ParentStudy}
          /\ gets' = [gets EXCEPT ![info.ParentStudy] = @ + 1]
          /\ IF response_2 = "ok"
             THEN /\ blocks' = [blocks EXCEPT ![info.ParentStudy] = @ + 1]
                  /\ Return(ret)
             ELSE /\ UNCHANGED blocks
                  /\ Raise("HTTPError")
     ELSE /\ UNCHANGED <<IMPORTED_STUDIES, gets, blocks>>
          /\ Return(ret)

\* upload_buffer(dicom) where the store answers the POST with response and
\* the tags GET, if made, with response_2; control goes to ret on return
upload_buffer(dicom, response, response_2, ret) ==
  /\ sinkCalls' = sinkCalls + 1
  /\ lastSink' = dicom
  /\ uploadedArgs' = uploadedArgs \cup {argIdx}
  /\ IF is_json(dicom)
     THEN JsonSkipped(ret)
     ELSE /\ posts' = posts + 1
          /\ IF response.status # "ok"
             THEN Rejected(ret)
             ELSE Accepted(response, response_2, ret)

-----------------------------------------------------------------------------
(* The script *)

ArgLists == UNION {[1..n -> Paths] : n \in 0..MaxArgs}

Stores == {[i \in 1..n |-> i] : n \in 0..MaxStore}

Idle ==
  /\ fatal = "none"
  /\ pending = <<>>
  /\ deletes = 0
  /\ prompts = 0
  /\ argIdx = 0
  /\ queue = <<>>
  /\ items = <<>>
  /\ cur = "none"
  /\ fileCalls = <<>>
  /\ lastDone = [file |-> "none", fn |-> "none", calls |-> <<>>]
  /\ IMPORTED_STUDIES = {}
  /\ COUNT_ERROR = 0
  /\ COUNT_DICOM = 0
  /\ COUNT_JSON = 0
  /\ posts = 0
  /\ gets = [s \in Studies |-> 0]
  /\ blocks = [s \in Studies |-> 0]
  /\ named = [s \in Studies |-> 0]
  /\ sinkCalls = 0
  /\ lastSink = NoPayload
  /\ lastPost = "none"
  /\ uploadedArgs = {}
  /\ summary = "none"

Init ==
  /\ args \in [clear : BOOLEAN, force : BOOLEAN, ignore_errors : BOOLEAN,
               files : ArgLists]
  /\ remote \in Stores
  /\ pc = "clear"
  /\ path = <<>>
  /\ strategy = NoCall
  /\ Idle

\* where control goes when decode_file returns with q left to walk
Ret(q) == IF q = <<>> THEN "files" ELSE "decode"

\* if args.clear: false
SkipClear ==
  /\ pc = "clear"
  /\ ~args.clear
  /\ pc' = "files"
  /\ UNCHANGED <<args, fatal, remote, pending, deletes, prompts, argIdx, queue,
                 items, cur, fileCalls, lastDone, path, strategy, summary>>
  /\ UNCHANGED sinkVars

\* if args.clear: r = requests.get(url/studies); r.raise_for_status()
ClearList ==
  /\ pc = "clear"
  /\ args.clear
  /\ \E r \in Statuses :
       IF r = "ok"
       THEN pending' = remote /\ pc' = "delete" /\ fatal' = fatal
       ELSE UNCHANGED pending /\ Raise("HTTPError")
  /\ UNCHANGED <<args, remote, deletes, prompts, argIdx, queue, items, cur,
                 fileCalls, lastDone, path, strategy, summary>>
  /\ UNCHANGED sinkVars

\* for study in r.json(): requests.delete(...).raise_for_status()
ClearDelete ==
  /\ pc = "delete"
  /\ pending # <<>>
  /\ deletes' = deletes + 1
  /\ \E r \in Statuses :
       IF r = "ok"
       THEN /\ remote' = SelectSeq(remote, LAMBDA st : st # Head(pending))
            /\ pending' = Tail(pending)
            /\ Return("delete")
       ELSE /\ UNCHANGED <<remote, pending>>
            /\ Raise("HTTPError")
  /\ UNCHANGED <<args, prompts, argIdx, queue, items, cur, fileCalls, lastDone,
                 path, strategy, summary>>
  /\ UNCHANGED sinkVars

\* the loop over r.json() is exhausted: print('Orthanc is now empty')
ClearDone ==
  /\ pc = "delete"
  /\ pending = <<>>
  /\ pc' = "files"
  /\ UNCHANGED <<args, fatal, remote, pending, deletes, prompts, argIdx, queue,
                 items, cur, fileCalls, lastDone, path, strategy, summary>>
  /\ UNCHANGED sinkVars

\* MissingPath with the path skipped in ignore-errors mode
MissingPath_ignored ==
  IF args.ignore_errors
  THEN queue' = <<>> /\ Return("files")
  ELSE UNCHANGED queue /\ Raise("Missing file or directory")

\* else: raise Exception('Missing file or directory: %s' % path)
MissingPath == UNCHANGED queue /\ Raise("Missing file or directory")

\* for path in args.files: one iteration up to the first decode_file call
NextPath ==
  /\ pc = "files"
  /\ argIdx < Len(args.files)
  /\ argIdx' = argIdx + 1
  /\ LET p == args.files[argIdx + 1]
     IN IF isfile(p)
        THEN queue' = <<Entry(p, FS[p].name)>> /\ Return("decode")
        ELSE IF isdir(p)
        THEN queue' = os_walk(p) /\ Return(Ret(os_walk(p)))
        ELSE MissingPath
  /\ UNCHANGED <<items, cur, fileCalls, lastDone, path, strategy, summary>>
  /\ UNCHANGED ctlVars
  /\ UNCHANGED sinkVars

\* the final report
Summary ==
  /\ pc = "files"
  /\ argIdx = Len(args.files)
  /\ summary' = IF COUNT_ERROR = 0 THEN "SUCCESS" ELSE "WARNING"
  /\ pc' = "done"
  /\ UNCHANGED <<fatal, argIdx, queue, items, cur, fileCalls, lastDone, path,
                 strategy>>
  /\ UNCHANGED ctlVars
  /\ UNCHANGED sinkVars

\* the entry the walk hands to decode_file next, as a set
Front(q) == IF q = <<>> THEN {} ELSE {Head(q)}

\* decode_file(e.path) is entered and selects fn
Enter(e, fn) ==
  /\ pc = "decode"
  /\ queue # <<>>
  /\ e = Head(queue)
  /\ decode_file(e.path).fn = fn
  /\ path' = e.path
  /\ strategy' = decode_file(e.path)
  /\ queue' = Tail(queue)
  /\ UNCHANGED <<argIdx, summary>>
  /\ UNCHANGED ctlVars

Done(file, fn, calls) == [file |-> file, fn |-> fn, calls |-> calls]

\* dicom = validate_dicom_tags(file_path); upload_buffer(dicom), for the
\* three functions that read file_path as one payload
UploadWhole(e, fn) ==
  /\ Enter(e, fn)
  /\ UNCHANGED items
  /\ IF dcmread_ok(FS[e.file].raw)
     THEN /\ \E response \in PostResponses, response_2 \in Statuses :
               upload_buffer(validate_dicom_tags(FS[e.file].raw),
                             response, response_2, Ret(Tail(queue)))
          /\ fileCalls' = <<0>>
          /\ IF pc' = "aborted"
             THEN cur' = e.file /\ UNCHANGED lastDone
             ELSE cur' = "none" /\ lastDone' = Done(e.file, fn, <<0>>)
     ELSE /\ Raise("InvalidDicomError")
          /\ fileCalls' = <<>>
          /\ cur' = e.file
          /\ UNCHANGED lastDone
          /\ UNCHANGED sinkVars

upload_file == \E e \in Front(queue) : UploadWhole(e, "upload_file")

\* with bz2.BZ2File(file_path, 'rb') as f: the stream f is never read
upload_bzip2 == \E e \in Front(queue) : UploadWhole(e, "upload_bzip2")

\* with gzip.open(file_path, 'rb') as f: the stream f is never read
upload_gzip == \E e \in Front(queue) : UploadWhole(e, "upload_gzip")

\* with tarfile.open(file_path, decoder) as tar
upload_tar ==
  \E e \in Front(queue) :
    /\ Enter(e, "upload_tar")
    /\ cur' = e.file
    /\ fileCalls' = <<>>
    /\ IF tarfile_open_ok(e.file, decode_file(e.path).decoder)
       THEN items' = FS[e.file].members /\ Return("tar")
       ELSE UNCHANGED items /\ Raise("ReadError")
    /\ UNCHANGED lastDone
    /\ UNCHANGED sinkVars

\* index in the open archive of the member the loop is at
Position == Len(FS[cur].members) - Len(items) + 1

\* for item in tar: one iteration
TarItem ==
  /\ pc = "tar"
  /\ items # <<>>
  /\ items' = Tail(items)
  /\ IF isreg(Head(items))
     THEN /\ \E response \in PostResponses, response_2 \in Statuses :
               upload_buffer(Head(items).data, response, response_2, "tar")
          /\ fileCalls' = Append(fileCalls, Position)
     ELSE /\ Return("tar")
          /\ UNCHANGED fileCalls
          /\ UNCHANGED sinkVars
  /\ UNCHANGED <<argIdx, queue, cur, lastDone, path, strategy, summary>>
  /\ UNCHANGED ctlVars

\* with zipfile.ZipFile(file_path, 'r') as zip
upload_zip ==
  \E e \in Front(queue) :
    /\ Enter(e, "upload_zip")
    /\ cur' = e.file
    /\ fileCalls' = <<>>
    /\ IF zipfile_open_ok(e.file)
       THEN items' = FS[e.file].members /\ Return("zip")
       ELSE UNCHANGED items /\ Raise("BadZipFile")
    /\ UNCHANGED lastDone
    /\ UNCHANGED sinkVars

\* for item in zip.infolist(): one iteration
ZipItem ==
  /\ pc = "zip"
  /\ items # <<>>
  /\ items' = Tail(items)
  /\ IF Head(items).file_size > 0
     THEN /\ \E response \in PostResponses, response_2 \in Statuses :
               upload_buffer(Head(items).data, response, response_2, "zip")
          /\ fileCalls' = Append(fileCalls, Position)
     ELSE /\ Return("zip")
          /\ UNCHANGED fileCalls
          /\ UNCHANGED sinkVars
  /\ UNCHANGED <<argIdx, queue, cur, lastDone, path, strategy, summary>>
  /\ UNCHANGED ctlVars

\* the member loop is exhausted: the archive is closed and decode_file returns
ArchiveEnd ==
  /\ pc \in {"tar", "zip"}
  /\ items = <<>>
  /\ lastDone' = Done(cur, strategy.fn, fileCalls)
  /\ cur' = "none"
  /\ Return(Ret(queue))
  /\ UNCHANGED <<argIdx, queue, items, fileCalls, path, strategy, summary>>
  /\ UNCHANGED ctlVars
  /\ UNCHANGED sinkVars

Next ==
  \/ SkipClear
  \/ ClearList
  \/ ClearDelete
  \/ ClearDone
  \/ NextPath
  \/ upload_file
  \/ upload_bzip2
  \/ upload_gzip
  \/ upload_tar
  \/ TarItem
  \/ upload_zip
  \/ ZipItem
  \/ ArchiveEnd
  \/ Summary

Spec == Init /\ [][Next]_vars

-----------------------------------------------------------------------------
(* decode_file alone, on every name of at most MaxPathLen tokens *)

InitDispatch ==
  /\ args = [clear |-> FALSE, force |-> FALSE, ignore_errors |-> FALSE,
             files |-> <<>>]
  /\ remote = <<>>
  /\ pc = "dispatch"
  /\ path \in Names
  /\ strategy = NoCall
  /\ Idle

Dispatch ==
  /\ pc = "dispatch"
  /\ strategy' = decode_file(path)
  /\ pc' = "dispatched"
  /\ UNCHANGED <<fatal, argIdx, queue, items, cur, fileCalls, lastDone, path,
                 summary>>
  /\ UNCHANGED ctlVars
  /\ UNCHANGED sinkVars

NextDispatch == Dispatch

SpecDispatch == InitDispatch /\ [][NextDispatch]_vars

-----------------------------------------------------------------------------
(* Properties *)

\* the file the last decode_file call was made for
LastDecoded == IF cur # "none" THEN cur ELSE lastDone.file

\* the most specific suffix of a name, by its last tokens alone
SuffixCall(p) ==
  IF endswith(p, <<".", "tar", ".", "bz2">>) THEN Call("upload_tar", "r:bz2")
  ELSE IF endswith(p, <<".", "tar", ".", "gz">>) THEN Call("upload_tar", "r:gz")
  ELSE IF endswith(p, <<".", "zip">>) THEN Call("upload_zip", "")
  ELSE IF endswith(p, <<".", "tar">>) THEN Call("upload_tar", "r")
  ELSE IF endswith(p, <<".", "bz2">>) THEN Call("upload_bzip2", "")
  ELSE IF endswith(p, <<".", "gz">>) THEN Call("upload_gzip", "")
  ELSE Call("upload_file", "")

\* C1: for every name, decode_file selects the strategy of the name's most
\* specific suffix (.tar.bz2, .tar.gz, .zip, .tar, .bz2, .gz, else
\* passthrough), also when the base name is the suffix alone.
C1_SuffixDecides ==
  pc = "dispatched" => strategy = SuffixCall(path)

\* the indexes of the regular-file members of an archive, in order
RegularMembers(f) ==
  SelectSeq([i \in 1..Len(FS[f].members) |-> i],
            LAMBDA i : isreg(FS[f].members[i]))

\* C2: when decode_file returns from a tar or zip archive, upload_buffer has
\* been called once for every regular-file member, whatever its content, and
\* for no other member.
C2_OneCallPerRegularMember ==
  lastDone.fn \in {"upload_tar", "upload_zip"}
    => lastDone.calls = RegularMembers(lastDone.file)

\* C3: every payload handed to upload_buffer is the output of
\* validate_dicom_tags, and an image payload carries the four identity fields.
C3_SinkAfterRepair ==
  sinkCalls > 0
    => /\ lastSink.resaved
       /\ lastSink.kind = "dicom"
            => \A k \in Keywords : lastSink.ds[k] # "absent"

\* C4 as stated: for every study a successful upload has named, the "New
\* imported study" block and its tags GET have been emitted exactly once.
C4_BlockExactlyOnce ==
  \A s \in Studies : named[s] > 0 => blocks[s] = 1 /\ gets[s] = 1

\* C4 amended: the tags GET of a study is issued exactly once, with the first
\* successful upload naming it, and the block is printed at most once: once
\* if that GET succeeded, and not at all if it failed, which ended the run
\* at that first upload.
C4_BlockAtMostOnce ==
  \A s \in Studies :
    /\ gets[s] = (IF named[s] > 0 THEN 1 ELSE 0)
    /\ (s \in IMPORTED_STUDIES) = (named[s] > 0)
    /\ blocks[s] <= gets[s]
    /\ (named[s] > 0 /\ blocks[s] = 0)
         => named[s] = 1 /\ pc = "aborted" /\ fatal = "HTTPError"

\* a study named by two successful uploads, with a rejected upload in the run
C4_Witness ==
  \E s \in Studies : named[s] >= 2 /\ blocks[s] = 1 /\ COUNT_ERROR > 0

\* C5: an upload_buffer call with a payload is_json accepts adds one to
\* COUNT_JSON, makes no request and leaves COUNT_ERROR, COUNT_DICOM and
\* IMPORTED_STUDIES as they are.
C5_JsonSkipOnly ==
  [][(sinkCalls' = sinkCalls + 1 /\ is_json(lastSink'))
       => /\ COUNT_JSON' = COUNT_JSON + 1
          /\ posts' = posts
          /\ gets' = gets
          /\ deletes' = deletes
          /\ COUNT_ERROR' = COUNT_ERROR
          /\ COUNT_DICOM' = COUNT_DICOM
          /\ IMPORTED_STUDIES' = IMPORTED_STUDIES]_vars

\* a structured-text payload has just been skipped
C5_Witness ==
  sinkCalls > 0 /\ is_json(lastSink) /\ COUNT_JSON = 1 /\ posts > 0

BadInput == {"ReadError", "BadZipFile", "InvalidDicomError"}

\* C7: in ignore-errors mode no archive that cannot be opened and no content
\* that is not a parseable image ends the run; outside it an archive that
\* cannot be opened does.
C7_IgnoreErrorsSkipsBadInput ==
  /\ args.ignore_errors => fatal \notin BadInput
  /\ ( /\ ~args.ignore_errors
       /\ cur # "none"
       /\ \/ strategy.fn = "upload_tar"
             /\ ~tarfile_open_ok(cur, strategy.decoder)
          \/ strategy.fn = "upload_zip" /\ ~zipfile_open_ok(cur) )
       => pc = "aborted" /\ fatal \in BadInput

\* C8 as stated: a missing path ends the run, whatever the mode, without a
\* summary and without any upload_buffer call for any argument.
C8_MissingPathNoUploads ==
  \A k \in 1..Len(args.files) :
    (FS[args.files[k]].type = "missing" /\ argIdx >= k)
      => /\ pc = "aborted"
         /\ fatal = "Missing file or directory"
         /\ summary = "none"
         /\ sinkCalls = 0

\* C8 amended: a missing path ends the run when the loop reaches it, whatever
\* the mode, without a summary and without any upload_buffer call for that
\* argument or a later one; the arguments before it have been processed.
C8_MissingPathStopsThere ==
  \A k \in 1..Len(args.files) :
    (FS[args.files[k]].type = "missing" /\ argIdx >= k)
      => /\ pc = "aborted"
         /\ fatal = "Missing file or directory"
         /\ argIdx = k
         /\ summary = "none"
         /\ \A j \in uploadedArgs : j < k

\* in ignore-errors mode the run ended at a missing path after an upload
C8_Witness ==
  /\ args.ignore_errors
  /\ fatal = "Missing file or directory"
  /\ uploadedArgs # {}

\* C9: with --clear and without --force no DELETE is issued before the user
\* has been prompted; with --clear --force there is no prompt.
C9_ClearNeedsConfirmation ==
  /\ (args.clear /\ ~args.force /\ deletes > 0) => prompts > 0
  /\ (args.clear /\ args.force) => prompts = 0

\* C10: decode_file of a gzip or bzip2 stream that is not a tar makes exactly
\* one upload_buffer call, with the repaired decompressed content of the file.
C10_StreamPayload ==
  ( /\ strategy.fn \in {"upload_gzip", "upload_bzip2"}
    /\ FS[LastDecoded].format \in {"gzip", "bzip2"} )
    => /\ fileCalls = <<0>>
       /\ lastSink = validate_dicom_tags(FS[LastDecoded].stream)

====
